---- MODULE Spec2Model ----
(***************************************************************************)
(* Model of imaging_transcriptomics/inputs.py (get_components,             *)
(* extract_average, load_gene_expression) and of the resampling engines    *)
(* the package imports (bootstrap, permutations).                          *)
(*                                                                         *)
(* Variances are fixed-point numbers: the integer v stands for v / Scale,  *)
(* so the fraction 1.0 is Scale.                                           *)
(***************************************************************************)
EXTENDS Integers, Sequences, FiniteSets

VARIABLES
    \* get_components
    target_variance, explained_var, cumulative_var, dim, gc_pc, gc_out, prev_call,
    \* extract_average
    imaging_matrix, scan_before, atlas_data, data, ea_i, ea_pc, ea_out,
    \* load_gene_expression
    expression_data, lg_out,
    \* bootstrap_pls and the permutation engine
    X, Y, Xs, Ys, engine, rs_pc, n_iter, iter, true_ev, null_ev, p_values, rs_out

gc_vars == <<target_variance, explained_var, cumulative_var, dim, gc_pc, gc_out, prev_call>>
ea_vars == <<imaging_matrix, scan_before, atlas_data, data, ea_i, ea_pc, ea_out>>
lg_vars == <<expression_data, lg_out>>

rs_vars == <<X, Y, Xs, Ys, engine, rs_pc, n_iter, iter, true_ev, null_ev, p_values, rs_out>>

vars == <<gc_vars, ea_vars, lg_vars, rs_vars>>

\* ---------------------------------------------------------------- bounds

\* Resolution of the fixed-point variances: 1.0 == Scale.
Scale == 4
\* Longest explained-variance sequence.
MaxLen == 3
\* Most voxels of a scan or of the atlas.
MaxVoxels == 3
\* Most voxels when both data providers run.
MaxProvVoxels == 2
\* Most data rows of the gene-expression table.
MaxTableRows == 42
\* Rows (samples) of X and Y in the resampling engines.
NumRows == 3
\* Largest n_boot and n_perm.
MaxIter == 2

\* ---------------------------------------------------------------- values

NoOut == [kind |-> "none", val |-> 0]
Returned(v) == [kind |-> "returned", val |-> v]
Raised(e) == [kind |-> "raised", val |-> e]
NoCall == [target |-> 0, out |-> NoOut]

\* target_variance as the caller may pass it: in (0,1], <= 0, or > 1.
Targets == (0 - 1)..(Scale + 1)
\* Each explained variance is a fraction in [0,1].
Fractions == 0..Scale
SeqsUpTo(S, n) == UNION {[1..k -> S] : k \in 0..n}

\* ---------------------------------------------------------------- get_components

\* errors.check_var_in_range: the target must lie in (0,1].
check_var_in_range(t) == 0 < t /\ t <= Scale

\* The decorator as applied to get_components (with the guard dropped the body
\* runs for every target).
get_components_unguarded(t) == TRUE
get_components_guard(t) == check_var_in_range(t)

\* np.cumsum
RECURSIVE cumsum(_)
cumsum(s) ==
    IF s = <<>> THEN <<>>
    ELSE LET c == cumsum(SubSeq(s, 1, Len(s) - 1))
         IN  Append(c, (IF c = <<>> THEN 0 ELSE c[Len(c)]) + s[Len(s)])

\* The loop test `cumulative_var[dim-1] < target_variance`, for an index in range.
below_target_inclusive(cv, d, t) == cv[d] <= t
below_target_residual(cv, d, t) == cv[d] < Scale - t
below_target(cv, d, t) == cv[d] < t

\* `dim += 1`
dim_stuck(d) == d
next_dim(d) == d + 1

\* The decorated entry: the range check runs before the body.
get_components_call ==
    /\ gc_pc = "call"
    /\ IF get_components_guard(target_variance)
       THEN gc_pc' = "body" /\ gc_out' = gc_out
       ELSE gc_pc' = "done" /\ gc_out' = Raised("InvalidRangeError")
    /\ UNCHANGED <<target_variance, explained_var, cumulative_var, dim, prev_call>>
    /\ UNCHANGED <<ea_vars, lg_vars, rs_vars>>

\* dim = 1; cumulative_var = np.cumsum(explained_var)
get_components_body ==
    /\ gc_pc = "body"
    /\ dim' = 1
    /\ cumulative_var' = cumsum(explained_var)
    /\ gc_pc' = "while"
    /\ UNCHANGED <<target_variance, explained_var, gc_out, prev_call>>
    /\ UNCHANGED <<ea_vars, lg_vars, rs_vars>>

\* One evaluation of the while test, then either `dim += 1` or `return dim`.
\* Subscripting past the end of the array raises IndexError.
get_components_while ==
    /\ gc_pc = "while"
    /\ IF dim - 1 >= Len(cumulative_var)
       THEN gc_pc' = "done" /\ gc_out' = Raised("IndexError") /\ dim' = dim
       ELSE IF below_target(cumulative_var, dim, target_variance)
            THEN gc_pc' = "while" /\ gc_out' = gc_out /\ dim' = next_dim(dim)
            ELSE gc_pc' = "done" /\ gc_out' = Returned(dim) /\ dim' = dim
    /\ UNCHANGED <<target_variance, explained_var, cumulative_var, prev_call>>
    /\ UNCHANGED <<ea_vars, lg_vars, rs_vars>>

\* The caller asks again, with another target, for the same sequence.
get_components_again ==
    /\ gc_pc = "done"
    /\ prev_call = NoCall
    /\ prev_call' = [target |-> target_variance, out |-> gc_out]
    /\ \E t \in Targets : target_variance' = t
    /\ gc_pc' = "call"
    /\ gc_out' = NoOut
    /\ cumulative_var' = <<>>
    /\ dim' = 0
    /\ UNCHANGED explained_var
    /\ UNCHANGED <<ea_vars, lg_vars, rs_vars>>

\* No resampling engine running.
IdleResample ==
    /\ X = <<>>
    /\ Y = <<>>
    /\ Xs = <<>>
    /\ Ys = <<>>
    /\ engine = "none"
    /\ rs_pc = "idle"
    /\ n_iter = 0
    /\ iter = 0
    /\ true_ev = <<>>
    /\ null_ev = <<>>
    /\ p_values = <<>>
    /\ rs_out = NoOut

\* No call of extract_average or load_gene_expression in progress.
IdleInputs ==
    /\ imaging_matrix = <<>>
    /\ scan_before = <<>>
    /\ atlas_data = <<>>
    /\ data = <<>>
    /\ ea_i = 0
    /\ ea_pc = "idle"
    /\ ea_out = NoOut
    /\ expression_data = <<>>
    /\ lg_out = NoOut

InitComponents ==
    /\ target_variance \in Targets
    /\ explained_var \in SeqsUpTo(Fractions, MaxLen)
    /\ cumulative_var = <<>>
    /\ dim = 0
    /\ gc_pc = "call"
    /\ gc_out = NoOut
    /\ prev_call = NoCall
    /\ IdleInputs
    /\ IdleResample

NextComponents ==
    \/ get_components_call
    \/ get_components_body
    \/ get_components_while
    \/ get_components_again

SpecComponents == InitComponents /\ [][NextComponents]_vars

\* One call on its own. The interpreter runs a started call to its end: each
\* step of it is taken once it is enabled.
NextScan ==
    \/ get_components_call
    \/ get_components_body
    \/ get_components_while

SpecScanFair == InitComponents /\ [][NextScan]_vars /\ WF_vars(NextScan)

\* ---------------------------------------------------------------- extract_average

\* The number of regions.
n_regions == 41

Shapes(n) == {sh \in (1..n) \X (1..n) : sh[1] * sh[2] <= n}
Coords(sh) == (1..sh[1]) \X (1..sh[2])
Size(sh) == sh[1] * sh[2]
\* A voxel grid: its shape and its values (coordinates count from 1).
Grids(S, n) == UNION {{[shape |-> sh, vox |-> f] : f \in [Coords(sh) -> S]} : sh \in Shapes(n)}
\* Atlas labels: background, the first and the last region, a label past the last.
Labels == {0, 1, n_regions, n_regions + 1}
Intensities == {1, 2}

\* A float that is a ratio of integers; 0/0 is nan.
NaN == [num |-> 0, den |-> 0]
RECURSIVE GCD(_, _)
GCD(a, b) == IF b = 0 THEN a ELSE GCD(b, a % b)
Frac(n, d) == LET g == GCD(n, d) IN [num |-> n \div g, den |-> d \div g]

\* Python's 0-based subscripts on a sequence.
item(s, k) == s[k + 1]
setitem(s, k, v) == [s EXCEPT ![k + 1] = v]

\* errors.check_correct_shape: the scan must have the shape of the atlas.
check_correct_shape(scan, atlas) == scan.shape = atlas.shape

\* The decorator as applied to extract_average.
extract_average_unguarded(scan, atlas) == TRUE
extract_average_guard(scan, atlas) == check_correct_shape(scan, atlas)

\* np.zeros(n)
zeros(n) == [k \in 1..n |-> Frac(0, 1)]

\* The k-th voxel of a grid in row-major order.
Coord(sh, k) == <<((k - 1) \div sh[2]) + 1, ((k - 1) % sh[2]) + 1>>

\* np.where(a == i): the coordinates, in row-major order, of the voxels equal to i.
RECURSIVE where_from(_, _, _)
where_from(a, i, k) ==
    IF k > Size(a.shape) THEN <<>>
    ELSE (IF a.vox[Coord(a.shape, k)] = i THEN <<Coord(a.shape, k)>> ELSE <<>>)
         \o where_from(a, i, k + 1)
where_eq(a, i) == where_from(a, i, 1)

\* The voxels of region i: np.where(atlas_data == i).
region_voxels_shifted(atlas, i) == where_eq(atlas, i - 1)
region_voxels(atlas, i) == where_eq(atlas, i)

\* imaging_matrix[idx]: every coordinate must lie in the scan.
in_bounds(scan, idx) ==
    \A k \in 1..Len(idx) : idx[k][1] <= scan.shape[1] /\ idx[k][2] <= scan.shape[2]
take(scan, idx) == [k \in 1..Len(idx) |-> scan.vox[idx[k]]]

RECURSIVE np_sum(_)
np_sum(v) == IF v = <<>> THEN 0 ELSE v[1] + np_sum(Tail(v))
\* np.mean: nan for no values.
np_mean(v) == IF Len(v) = 0 THEN NaN ELSE Frac(np_sum(v), Len(v))

\* The decorated entry: the shape check runs before the body.
extract_average_call ==
    /\ ea_pc = "call"
    /\ IF extract_average_guard(imaging_matrix, atlas_data)
       THEN ea_pc' = "body" /\ ea_out' = ea_out
       ELSE ea_pc' = "done" /\ ea_out' = Raised("ShapeMismatchError")
    /\ UNCHANGED <<imaging_matrix, scan_before, atlas_data, data, ea_i>>
    /\ UNCHANGED <<gc_vars, lg_vars, rs_vars>>

\* n_regions = 41; the atlas is loaded; data = np.zeros(n_regions); the loop starts at 1.
extract_average_body ==
    /\ ea_pc = "body"
    /\ data' = zeros(n_regions)
    /\ ea_i' = 1
    /\ ea_pc' = "for"
    /\ UNCHANGED <<imaging_matrix, scan_before, atlas_data, ea_out>>
    /\ UNCHANGED <<gc_vars, lg_vars, rs_vars>>

\* One pass of `for i in range(1, n_regions + 1)`, or the return after the last.
extract_average_for ==
    /\ ea_pc = "for"
    /\ IF ea_i > n_regions
       THEN ea_pc' = "done" /\ ea_out' = Returned(data) /\ data' = data /\ ea_i' = ea_i
       ELSE LET idx == region_voxels(atlas_data, ea_i) IN
            IF ~in_bounds(imaging_matrix, idx)
            THEN ea_pc' = "done" /\ ea_out' = Raised("IndexError")
                 /\ data' = data /\ ea_i' = ea_i
            ELSE /\ data' = setitem(data, ea_i - 1, np_mean(take(imaging_matrix, idx)))
                 /\ ea_i' = ea_i + 1
                 /\ ea_pc' = "for"
                 /\ ea_out' = ea_out
    /\ UNCHANGED <<imaging_matrix, scan_before, atlas_data>>
    /\ UNCHANGED <<gc_vars, lg_vars, rs_vars>>

\* ---------------------------------------------------------------- load_gene_expression

\* The rows kept by iloc[0:41, 2:].
expression_rows == 41

Min(a, b) == IF a <= b THEN a ELSE b

\* A table of n data rows, each row named by its position in the file. The
\* columns, and the values zscore rescales column by column, are left out: the
\* slice 2: and zscore keep the rows.
Table(n) == [k \in 1..n |-> k]

\* DataFrame.iloc[0:stop]: the first stop rows, or all of them when there are fewer.
iloc_rows_one_short(t, stop) == SubSeq(t, 1, Min(stop - 1, Len(t)))
iloc_rows(t, stop) == SubSeq(t, 1, Min(stop, Len(t)))

\* The whole function: read the table, slice it, z-score it.
load_gene_expression ==
    /\ ea_pc = "done"
    /\ lg_out = NoOut
    /\ \E n \in 0..MaxTableRows :
         /\ expression_data' = Table(n)
         /\ lg_out' = Returned(iloc_rows(Table(n), expression_rows))
    /\ UNCHANGED <<gc_vars, ea_vars, rs_vars>>

\* ---------------------------------------------------------------- specifications of the inputs

IdleComponents ==
    /\ target_variance = 0
    /\ explained_var = <<>>
    /\ cumulative_var = <<>>
    /\ dim = 0
    /\ gc_pc = "idle"
    /\ gc_out = NoOut
    /\ prev_call = NoCall

InitInputs(n) ==
    /\ imaging_matrix \in Grids(Intensities, n)
    /\ scan_before = imaging_matrix
    /\ atlas_data \in Grids(Labels, n)
    /\ data = <<>>
    /\ ea_i = 0
    /\ ea_pc = "call"
    /\ ea_out = NoOut
    /\ expression_data = <<>>
    /\ lg_out = NoOut
    /\ IdleComponents
    /\ IdleResample

NextExtract ==
    \/ extract_average_call
    \/ extract_average_body
    \/ extract_average_for

InitExtract == InitInputs(MaxVoxels)

SpecExtract == InitExtract /\ [][NextExtract]_vars

\* Both data providers. They share no state, so one order of the two calls is
\* followed: the scan is averaged, then the table is loaded.
NextProviders ==
    \/ extract_average_call
    \/ extract_average_body
    \/ extract_average_for
    \/ load_gene_expression

InitProviders == InitInputs(MaxProvVoxels)

SpecProviders == InitProviders /\ [][NextProviders]_vars

\* ---------------------------------------------------------------- bootstrap and permutation engines

\* The PLS components, and the levels an explained variance may take. The PLS
\* fit is a black box: any explained variance may come out of it.
Components == {1, 2}
EvValues == {0, 1, 2}

\* Row i of X and row i of Y belong to sample i.
SampleRows(tag) == [i \in 1..NumRows |-> <<tag, i>>]

\* Index sets: R indices with replacement, and the permutations of the rows.
Draws == [1..NumRows -> 1..NumRows]
Permutations == {f \in Draws : \A i, j \in 1..NumRows : f[i] = f[j] => i = j}

\* M[idx]: the rows of M picked by an index set.
rows_at(M, idx) == [i \in 1..Len(idx) |-> M[idx[i]]]

\* The rows of Y in one bootstrap resample: picked by the draw that picks X's.
bootstrap_Y_unsampled(M, idx) == M
bootstrap_Y(M, idx) == rows_at(M, idx)

\* The rows of X in one permutation: in their original order.
permutation_X(M, perm) == M

\* How many of the null values are >= the true value.
RECURSIVE count_ge(_, _)
count_ge(nulls, true) ==
    IF nulls = <<>> THEN 0
    ELSE (IF nulls[1] >= true THEN 1 ELSE 0) + count_ge(Tail(nulls), true)

\* p = (count_null_ge_true + 1) / (n_perm + 1)
p_value_exclusive(nulls, true, n) == IF n = 0 THEN NaN ELSE Frac(count_ge(nulls, true), n)
p_value(nulls, true, n) == Frac(count_ge(nulls, true) + 1, n + 1)

\* bootstrap_pls(X, Y, d, n_boot, ...): the parameters are validated first.
bootstrap_pls_call ==
    /\ rs_pc = "idle"
    /\ engine' = "bootstrap"
    /\ \E n \in 0..MaxIter :
         /\ n_iter' = n
         /\ IF n < 1
            THEN rs_pc' = "done" /\ rs_out' = Raised("InvalidParameterError")
            ELSE rs_pc' = "loop" /\ rs_out' = rs_out
    /\ UNCHANGED <<X, Y, Xs, Ys, iter, true_ev, null_ev, p_values>>
    /\ UNCHANGED <<gc_vars, ea_vars, lg_vars>>

\* One bootstrap iteration: R indices are drawn with replacement and applied to
\* the rows of X and of Y. (The fit on the resample, the sign alignment and the
\* accumulation of the loadings are numerical and not modelled.)
bootstrap_iteration ==
    /\ rs_pc = "loop"
    /\ engine = "bootstrap"
    /\ iter < n_iter
    /\ \E idx \in Draws :
         /\ Xs' = rows_at(X, idx)
         /\ Ys' = bootstrap_Y(Y, idx)
    /\ iter' = iter + 1
    /\ UNCHANGED <<X, Y, engine, rs_pc, n_iter, true_ev, null_ev, p_values, rs_out>>
    /\ UNCHANGED <<gc_vars, ea_vars, lg_vars>>

\* permutation_test_pls(X, Y, d, n_perm, ...): the parameters are validated,
\* then the baseline fit gives the true explained variance of each component.
permutation_call ==
    /\ rs_pc = "idle"
    /\ engine' = "permutation"
    /\ \E n \in 0..MaxIter :
         /\ n_iter' = n
         /\ IF n < 1
            THEN rs_pc' = "done" /\ rs_out' = Raised("InvalidParameterError")
                 /\ true_ev' = true_ev
            ELSE rs_pc' = "loop" /\ rs_out' = rs_out
                 /\ true_ev' \in [Components -> EvValues]
    /\ UNCHANGED <<X, Y, Xs, Ys, iter, null_ev, p_values>>
    /\ UNCHANGED <<gc_vars, ea_vars, lg_vars>>

\* One permutation iteration: a permutation of the rows is drawn and applied to
\* Y, PLS is fitted on (X, permuted Y) and its explained variances are recorded.
permutation_iteration ==
    /\ rs_pc = "loop"
    /\ engine = "permutation"
    /\ iter < n_iter
    /\ \E perm \in Permutations :
         /\ Xs' = permutation_X(X, perm)
         /\ Ys' = rows_at(Y, perm)
    /\ \E ev \in [Components -> EvValues] : null_ev' = Append(null_ev, ev)
    /\ iter' = iter + 1
    /\ UNCHANGED <<X, Y, engine, rs_pc, n_iter, true_ev, p_values, rs_out>>
    /\ UNCHANGED <<gc_vars, ea_vars, lg_vars>>

\* Finalization, once the fixed number of iterations is complete.
resampling_finalize ==
    /\ rs_pc = "loop"
    /\ iter = n_iter
    /\ rs_pc' = "done"
    /\ IF engine = "permutation"
       THEN /\ p_values' = [k \in Components |->
                              p_value([j \in 1..Len(null_ev) |-> null_ev[j][k]],
                                      true_ev[k], n_iter)]
            /\ rs_out' = Returned(p_values')
       ELSE /\ p_values' = p_values
            /\ rs_out' = Returned("BootstrapResult")
    /\ UNCHANGED <<X, Y, Xs, Ys, engine, n_iter, iter, true_ev, null_ev>>
    /\ UNCHANGED <<gc_vars, ea_vars, lg_vars>>

InitResample ==
    /\ X = SampleRows("x")
    /\ Y = SampleRows("y")
    /\ Xs = <<>>
    /\ Ys = <<>>
    /\ engine = "none"
    /\ rs_pc = "idle"
    /\ n_iter = 0
    /\ iter = 0
    /\ true_ev = <<>>
    /\ null_ev = <<>>
    /\ p_values = <<>>
    /\ rs_out = NoOut
    /\ IdleComponents
    /\ IdleInputs

NextResample ==
    \/ bootstrap_pls_call
    \/ bootstrap_iteration
    \/ permutation_call
    \/ permutation_iteration
    \/ resampling_finalize

SpecResample == InitResample /\ [][NextResample]_vars

\* ---------------------------------------------------------------- claims: get_components

\* The sum of the first n entries of s.
RECURSIVE SumFirst(_, _)
SumFirst(s, n) == IF n = 0 THEN 0 ELSE SumFirst(s, n - 1) + s[n]

InRange(t) == t \in 1..Scale
Finished == gc_pc = "done"

\* C1: for a target in (0,1] and a non-empty sequence whose total reaches the
\* target, get_components returns the 1-based index n of the first component at
\* which the running sum reaches the target: the sum of the first n entries is
\* >= target, the sum of the first n-1 is < target when n > 1, and n = 1 when
\* the first entry alone reaches the target.
C1_FirstIndexReachingTarget ==
    (/\ Finished
     /\ InRange(target_variance)
     /\ Len(explained_var) > 0
     /\ SumFirst(explained_var, Len(explained_var)) >= target_variance)
    => /\ gc_out.kind = "returned"
       /\ gc_out.val \in 1..Len(explained_var)
       /\ SumFirst(explained_var, gc_out.val) >= target_variance
       /\ gc_out.val > 1 => SumFirst(explained_var, gc_out.val - 1) < target_variance
       /\ explained_var[1] >= target_variance => gc_out.val = 1

C1_Witness ==
    /\ Finished
    /\ InRange(target_variance)
    /\ gc_out.kind = "returned"
    /\ gc_out.val = 3
    /\ SumFirst(explained_var, 3) = target_variance

\* C2: when the running sum never reaches the target (the empty sequence
\* included) the call fails with InsufficientVarianceError and the array is
\* never subscripted past its last element.
C2_ShortfallRaisesInsufficientVariance ==
    (/\ InRange(target_variance)
     /\ SumFirst(explained_var, Len(explained_var)) < target_variance)
    => /\ Finished => gc_out = Raised("InsufficientVarianceError")
       /\ gc_pc = "while" => dim - 1 < Len(cumulative_var)

\* C3: for a target outside (0,1] the call fails with InvalidRangeError and the
\* check precedes the scan: the body is never entered (no cumulative sum, no
\* counter) and no count is returned.
C3_RangeCheckedBeforeScan ==
    ~InRange(target_variance)
    => /\ gc_pc \in {"call", "done"}
       /\ dim = 0
       /\ cumulative_var = <<>>
       /\ Finished => gc_out = Raised("InvalidRangeError")

C3_Witness ==
    /\ Finished
    /\ target_variance > Scale
    /\ Len(explained_var) > 0
    /\ gc_out = Raised("InvalidRangeError")

\* C4: for a fixed sequence and two targets for which a count is returned, the
\* smaller target never gets the larger count.
C4_MonotoneInTarget ==
    (/\ Finished
     /\ gc_out.kind = "returned"
     /\ prev_call.out.kind = "returned")
    => /\ prev_call.target <= target_variance => prev_call.out.val <= gc_out.val
       /\ target_variance <= prev_call.target => gc_out.val <= prev_call.out.val

C4_Witness ==
    /\ Finished
    /\ gc_out.kind = "returned"
    /\ prev_call.out.kind = "returned"
    /\ prev_call.target < target_variance
    /\ prev_call.out.val < gc_out.val

\* C10: the scan loop terminates: dim starts at 1 and only grows by 1 per step,
\* never passes L + 1 (at most L increments, L the length of the sequence), a
\* returned count lies in 1..L, and every started scan ends by returning or
\* failing.
C10_ScanTerminates ==
    /\ [](gc_pc = "while" => dim \in 1..(Len(explained_var) + 1))
    /\ [](gc_out.kind = "returned" => gc_out.val \in 1..Len(explained_var))
    /\ [][gc_pc = "body" => dim' = 1]_vars
    /\ [][gc_pc = "while" => dim' = dim \/ (dim' = dim + 1 /\ gc_pc' = "while")]_vars
    /\ (gc_pc \in {"body", "while"}) ~> Finished

C10_Witness ==
    /\ Finished
    /\ Len(explained_var) = MaxLen
    /\ dim = MaxLen + 1
    /\ gc_out = Raised("IndexError")

\* ---------------------------------------------------------------- claims: the data providers

\* The voxels of the atlas labelled l, as a set.
LabelledVoxels(l) == {v \in Coords(atlas_data.shape) : atlas_data.vox[v] = l}

\* The sum of the scan over a set of voxels.
RECURSIVE IntensitySum(_)
IntensitySum(V) ==
    IF V = {} THEN 0
    ELSE LET v == CHOOSE x \in V : TRUE IN imaging_matrix.vox[v] + IntensitySum(V \ {v})

SameShape == imaging_matrix.shape = atlas_data.shape
Averaged == ea_pc = "done"

\* C5: extract_average returns n_regions (41) values; for every i in 0..40
\* element i is the mean of the scan over exactly the voxels labelled i+1 (nan
\* when there is none), so voxels labelled 0 or more than 41 count nowhere; the
\* scan is as it was before the call.
C5_RegionMeans ==
    (Averaged /\ SameShape)
    => /\ ea_out.kind = "returned"
       /\ Len(ea_out.val) = n_regions
       /\ \A i \in 0..(n_regions - 1) :
            LET V == LabelledVoxels(i + 1)
                m == item(ea_out.val, i)
            IN  IF V = {} THEN m = NaN
                ELSE m.den > 0 /\ m.num * Cardinality(V) = m.den * IntensitySum(V)
       /\ imaging_matrix = scan_before

C5_Witness ==
    /\ Averaged
    /\ ea_out.kind = "returned"
    /\ Cardinality(LabelledVoxels(1)) = 2
    /\ item(ea_out.val, 0) = [num |-> 3, den |-> 2]
    /\ item(ea_out.val, n_regions - 1) = [num |-> 2, den |-> 1]
    /\ LabelledVoxels(n_regions + 1) = {}
    /\ LabelledVoxels(0) = {}

\* C6: a scan whose shape differs from the atlas's fails with ShapeMismatchError
\* before any region mean is computed: the result vector is never allocated and
\* the loop never starts.
C6_ShapeCheckedBeforeAveraging ==
    ~SameShape
    => /\ ea_pc \in {"call", "done"}
       /\ data = <<>>
       /\ ea_i = 0
       /\ Averaged => ea_out = Raised("ShapeMismatchError")

C6_Witness ==
    /\ Averaged
    /\ Size(imaging_matrix.shape) = Size(atlas_data.shape)
    /\ ~SameShape
    /\ ea_out = Raised("ShapeMismatchError")

Loaded == lg_out.kind = "returned"

\* C9 as stated: extract_average returns 41 entries and load_gene_expression
\* returns exactly 41 rows, whatever the scan and whatever the number of rows of
\* the table.
C9_AlwaysFortyOneRows ==
    /\ (Averaged /\ ea_out.kind = "returned") => Len(ea_out.val) = 41
    /\ Loaded => Len(lg_out.val) = 41

\* C9 as amended: extract_average returns 41 entries whatever the scan;
\* load_gene_expression returns the first 41 rows of a table that has at least
\* 41 data rows, and all the rows of a shorter table.
C9_FirstFortyOneRows ==
    /\ (Averaged /\ ea_out.kind = "returned") => Len(ea_out.val) = 41
    /\ Loaded =>
         /\ Len(lg_out.val) = Min(41, Len(expression_data))
         /\ Len(expression_data) >= 41 => Len(lg_out.val) = 41
         /\ \A k \in 1..Len(lg_out.val) : lg_out.val[k] = expression_data[k]

C9_Witness ==
    /\ Averaged
    /\ ea_out.kind = "returned"
    /\ Len(ea_out.val) = 41
    /\ Loaded
    /\ Len(expression_data) = 42
    /\ Len(lg_out.val) = 41

\* ---------------------------------------------------------------- claims: the resampling engines

PermutationDone == engine = "permutation" /\ rs_pc = "done" /\ rs_out.kind = "returned"

\* The null values of component k that are >= its true explained variance.
NullGeTrue(k) == {j \in 1..Len(null_ev) : null_ev[j][k] >= true_ev[k]}

\* C7: for n_perm >= 1 and every component k the p-value returned is
\* (count of null values >= the true value, plus 1) / (n_perm + 1); it lies in
\* [1/(n_perm+1), 1] and is never zero.
C7_PValueBounds ==
    PermutationDone
    => /\ n_iter >= 1
       /\ Len(null_ev) = n_iter
       /\ \A k \in Components :
            LET p == rs_out.val[k] IN
            /\ p.den > 0
            /\ p.num * (n_iter + 1) = p.den * (Cardinality(NullGeTrue(k)) + 1)
            /\ p.num * (n_iter + 1) >= p.den
            /\ p.num <= p.den
            /\ p.num > 0

C7_Witness ==
    /\ PermutationDone
    /\ n_iter = MaxIter
    /\ NullGeTrue(1) = {}
    /\ rs_out.val[1] = [num |-> 1, den |-> MaxIter + 1]
    /\ rs_out.val[2] = [num |-> 1, den |-> 1]

IsPermutedY ==
    /\ Len(Ys) = NumRows
    /\ \A i \in 1..NumRows : \E j \in 1..NumRows : Ys[j] = Y[i]

\* C8: in a bootstrap iteration one index set picks the rows of X and of Y, so
\* row i of the resampled X and row i of the resampled Y are rows of one
\* original sample; in a permutation iteration the permutation is applied to Y
\* only and X keeps its order.
C8_PairingKeptOrBroken ==
    iter > 0
    => /\ engine = "bootstrap" =>
            /\ Len(Xs) = NumRows /\ Len(Ys) = NumRows
            /\ \A i \in 1..NumRows :
                 \E r \in 1..NumRows : Xs[i] = X[r] /\ Ys[i] = Y[r]
       /\ engine = "permutation" => Xs = X /\ IsPermutedY

C8_Witness ==
    /\ engine = "bootstrap"
    /\ iter = MaxIter
    /\ Xs[1] = X[2] /\ Xs[2] = X[2] /\ Xs[3] = X[1]
    /\ Ys[1] = Y[2] /\ Ys[2] = Y[2] /\ Ys[3] = Y[1]

====
